---- MODULE Spec2Model ----
(***************************************************************************)
(* Branch-and-bound exact-sum subset search (services/bnbAlgorithm.ts)     *)
(* as a state machine.  One invocation of generateScenario is the run of   *)
(* the recursive function backtrack; the recursion is an explicit stack of *)
(* frames, and every action is one recordStep of the code together with    *)
(* the assignments the code makes around it.                               *)
(*                                                                         *)
(* Indices (startIndex, utxoIndex, the selection) are 0-based as in the    *)
(* source; TLA+ sequences are 1-based, so utxos[i + 1] is the source's     *)
(* utxos[i].  An optional value (T | undefined) is a sequence of length    *)
(* at most one: None is undefined, Some(x) is x.                           *)
(***************************************************************************)
EXTENDS Integers, Sequences, FiniteSets, TLC

\* ------------------------------------------------------------------ bounds
MaxLen == 3
MaxValue == 3
MaxTarget == 4
MaxTol == 1

VARIABLES
    utxoValues,           \* the caller's array, parameter utxoValues
    origValues,           \* history: the caller's array as first passed
    target,               \* parameter target
    dustThreshold,        \* parameter dustThreshold (the tolerance)
    utxos,                \* const utxos: the values after the descending sort
    steps,                \* const steps: AlgorithmStep[]  (the trace)
    candidates,           \* const candidates: SolutionCandidate[]
    stepCounter,          \* let stepCounter
    foundAnySolution,     \* let foundAnySolution
    bestSolutionIndices,  \* let bestSolutionIndices: number[] | undefined
    bestSolutionPath,     \* let bestSolutionPath: boolean[] | undefined
    stack,                \* the call stack of backtrack, innermost frame last
    phase,                \* "idle" | "running" | "done"
    scenario,             \* the Scenario returned by the latest invocation
    prev,                 \* the Scenario returned by the invocation before it
    mounted,              \* whether a Visualizer shows the returned Scenario
    stepIndex,            \* Visualizer: const [stepIndex, setStepIndex]
    isPlaying,            \* Visualizer: const [isPlaying, setIsPlaying]
    tree                  \* TreeGraph: its props and what its latest render built

\* The state of the components that show a Scenario.
viewVars == << mounted, stepIndex, isPlaying, tree >>

vars == << utxoValues, origValues, target, dustThreshold, utxos, steps,
           candidates, stepCounter, foundAnySolution, bestSolutionIndices,
           bestSolutionPath, stack, phase, scenario, prev, viewVars >>

\* ------------------------------------------------------------ optional values
None == << >>
Some(x) == << x >>

\* ------------------------------------------------------------------ helpers
\* [...arr, x]
Push(arr, x) == Append(arr, x)

RECURSIVE InsertAsc(_, _)
\* Mutant: the comparator a - b, ascending.
InsertAsc(sorted, x) ==
    IF sorted = << >> THEN << x >>
    ELSE IF Head(sorted) <= x
         THEN << Head(sorted) >> \o InsertAsc(Tail(sorted), x)
         ELSE << x >> \o sorted

RECURSIVE InsertDesc(_, _)
\* x goes after every element that does not compare greater (b - a <= 0 keeps
\* the earlier element first), so equal values keep their input order.
InsertDesc(sorted, x) ==
    IF sorted = << >> THEN << x >>
    ELSE IF Head(sorted) >= x
         THEN << Head(sorted) >> \o InsertDesc(Tail(sorted), x)
         ELSE << x >> \o sorted

RECURSIVE SortDesc(_)
\* utxoValues.sort((a, b) => b - a)
SortDesc(arr) ==
    IF arr = << >> THEN << >>
    ELSE InsertDesc(SortDesc(SubSeq(arr, 1, Len(arr) - 1)), arr[Len(arr)])

RECURSIVE SumFrom(_, _)
SumFrom(arr, i) ==
    IF i >= Len(arr) THEN 0 ELSE arr[i + 1] + SumFrom(arr, i + 1)

\* getRemainingSum(startIndex): the loop starts at startIndex, which may be
\* negative only as -1 + 1 = 0 in the code's uses.
getRemainingSum(startIndex) == SumFrom(utxos, startIndex)

\* Mutant: remainingValue skips the value right after the step's index.
NewStepRemainingSkipsOne(type, depth, idx, selection, sum, desc, path) ==
    [ stepId           |-> stepCounter,
      type             |-> type,
      depth            |-> depth,
      utxoIndex        |-> idx,
      currentSelection |-> selection,
      currentSum       |-> sum,
      description      |-> desc,
      remainingValue   |-> getRemainingSum(idx + 2),
      path             |-> path ]

\* The step object recordStep pushes.
NewStep(type, depth, idx, selection, sum, desc, path) ==
    [ stepId           |-> stepCounter,
      type             |-> type,
      depth            |-> depth,
      utxoIndex        |-> idx,
      currentSelection |-> selection,
      currentSum       |-> sum,
      description      |-> desc,
      remainingValue   |-> getRemainingSum(idx + 1),
      path             |-> path ]

\* Mutant: steps.unshift(...), the newest step first.
recordStepInFront(type, depth, idx, selection, sum, desc, path) ==
    /\ steps' = << NewStep(type, depth, idx, selection, sum, desc, path) >> \o steps
    /\ stepCounter' = stepCounter + 1

\* recordStep: steps.push({stepId: stepCounter++, ...})
recordStep(type, depth, idx, selection, sum, desc, path) ==
    /\ steps' = Append(steps, NewStep(type, depth, idx, selection, sum, desc, path))
    /\ stepCounter' = stepCounter + 1

\* A description is a template string of the code with the numbers it
\* interpolates.
Desc(tmpl, args) == [ tmpl |-> tmpl, args |-> args ]

\* ------------------------------------------------------------------ frames
Frame(depth, sel, sum, startIndex, path) ==
    [ depth |-> depth, currentSelection |-> sel, currentSum |-> sum,
      startIndex |-> startIndex, path |-> path, pc |-> "enter" ]

Top == stack[Len(stack)]
Pop == SubSeq(stack, 1, Len(stack) - 1)
SetPc(pc) == [ stack EXCEPT ![Len(stack)].pc = pc ]

Entering == phase = "running" /\ stack # << >> /\ Top.pc = "enter"

\* ------------------------------------------------------- tests of backtrack
\* Mutant: the upper limit target + dustThreshold is not tested.
IsSolutionNoUpperLimit(currentSum) == currentSum >= target

IsSolution(currentSum) ==
    \/ currentSum = target
    \/ (currentSum > target /\ currentSum <= target + dustThreshold)

IsExhausted(startIndex) == startIndex >= Len(utxos)

\* Mutant: the comparison is turned round, > for <.
PruneSumCondReversed(currentSum, remaining) == currentSum + remaining > target

\* Mutant: <= in place of <, cutting a branch that reaches the target exactly.
PruneSumCondOffByOne(currentSum, remaining) == currentSum + remaining <= target

PruneSumCond(currentSum, remaining) == currentSum + remaining < target

\* Mutant: the overshoot test is one too lenient.
PruneValCondLoose(currentSum) == currentSum > target + dustThreshold + 1

PruneValCond(currentSum) == currentSum > target + dustThreshold

\* ------------------------------------------------------------------ inputs
ValueSeqs == UNION { [1..n -> 0..MaxValue] : n \in 0..MaxLen }

Init ==
    /\ utxoValues \in ValueSeqs
    /\ origValues = utxoValues
    /\ target \in 0..MaxTarget
    /\ dustThreshold \in 0..MaxTol
    /\ utxos = << >>
    /\ steps = << >>
    /\ candidates = << >>
    /\ stepCounter = 0
    /\ foundAnySolution = FALSE
    /\ bestSolutionIndices = None
    /\ bestSolutionPath = None
    /\ stack = << >>
    /\ phase = "idle"
    /\ scenario = None
    /\ prev = None
    /\ mounted = FALSE
    /\ stepIndex = 0
    /\ isPlaying = FALSE
    /\ tree = None

\* ----------------------------------------------------------------- actions
\* Mutant: the step counter is shared by all invocations, never reset.
InvokeSharedCounter ==
    /\ phase # "running"
    /\ \E arr \in { utxoValues, origValues } :
          /\ utxoValues' = SortDesc(arr)
          /\ utxos' = SortDesc(arr)
    /\ steps' = << >>
    /\ candidates' = << >>
    /\ foundAnySolution' = FALSE
    /\ bestSolutionIndices' = None
    /\ bestSolutionPath' = None
    /\ stack' = << Frame(0, << >>, 0, 0, << >>) >>
    /\ phase' = "running"
    /\ prev' = scenario
    /\ UNCHANGED << viewVars, origValues, target, dustThreshold, scenario, stepCounter >>

\* generateScenario is called: the sort (in place, on the caller's array), the
\* fresh locals, and the call backtrack(0, [], 0, 0, []).  The caller passes
\* its array as it now is, or a fresh copy of the values it first had.
Invoke ==
    /\ phase # "running"
    /\ \E arr \in { utxoValues, origValues } :
          /\ utxoValues' = SortDesc(arr)
          /\ utxos' = SortDesc(arr)
    /\ steps' = << >>
    /\ candidates' = << >>
    /\ stepCounter' = 0
    /\ foundAnySolution' = FALSE
    /\ bestSolutionIndices' = None
    /\ bestSolutionPath' = None
    /\ stack' = << Frame(0, << >>, 0, 0, << >>) >>
    /\ phase' = "running"
    /\ prev' = scenario
    /\ UNCHANGED << viewVars, origValues, target, dustThreshold, scenario >>

\* Mutant: stepIndex taken as if the SOLUTION step were already recorded.
NewCandidateLateIndex(f) ==
    [ path |-> f.path, stepIndex |-> stepCounter + 1, value |-> f.currentSum ]

\* The SolutionCandidate of the frame: stepIndex is the id of the step about
\* to be recorded.
NewCandidate(f) ==
    [ path |-> f.path, stepIndex |-> stepCounter, value |-> f.currentSum ]

\* Mutant: candidates.unshift(c), the newest candidate first.
AddCandidateInFront(c) == << c >> \o candidates

\* candidates.push(c)
AddCandidate(c) == Append(candidates, c)

\* Mutant: no return after the SOLUTION step; the search goes on below the
\* solution node, into its exclude child.
SolutionDescends ==
    /\ Entering
    /\ IsSolution(Top.currentSum)
    /\ foundAnySolution' = TRUE
    /\ bestSolutionIndices' = Some(Top.currentSelection)
    /\ bestSolutionPath' = Some(Top.path)
    /\ candidates' = AddCandidate(NewCandidate(Top))
    /\ recordStep("SOLUTION", Top.depth, Top.startIndex - 1, Top.currentSelection,
                  Top.currentSum, Desc("Candidate Solution found!", << Top.currentSum >>),
                  Top.path)
    /\ stack' = IF IsExhausted(Top.startIndex) THEN Pop
                ELSE Append(SetPc("excluded"),
                            Frame(Top.depth + 1, Top.currentSelection, Top.currentSum,
                                  Top.startIndex + 1, Push(Top.path, FALSE)))
    /\ UNCHANGED << viewVars, utxoValues, origValues, target, dustThreshold, utxos, phase,
                    scenario, prev >>

\* if (currentSum === target || ...) { ...; recordStep(SOLUTION); return }
Solution ==
    /\ Entering
    /\ IsSolution(Top.currentSum)
    /\ foundAnySolution' = TRUE
    /\ bestSolutionIndices' = Some(Top.currentSelection)
    /\ bestSolutionPath' = Some(Top.path)
    /\ candidates' = AddCandidate(NewCandidate(Top))
    /\ recordStep("SOLUTION", Top.depth, Top.startIndex - 1, Top.currentSelection,
                  Top.currentSum, Desc("Candidate Solution found!", << Top.currentSum >>),
                  Top.path)
    /\ stack' = Pop
    /\ UNCHANGED << viewVars, utxoValues, origValues, target, dustThreshold, utxos, phase,
                    scenario, prev >>

\* Mutant: the overshoot test is made before the exhaustion test, so a node
\* with no value left that overshoots is recorded as PRUNE_VAL.
ExhaustedAfterPruneVal ==
    /\ Entering
    /\ ~IsSolution(Top.currentSum)
    /\ IsExhausted(Top.startIndex)
    /\ recordStep(IF Top.currentSum > target + dustThreshold
                  THEN "PRUNE_VAL" ELSE "BACKTRACK",
                  Top.depth, Top.startIndex, Top.currentSelection,
                  Top.currentSum, Desc("End of branch reached. Backtracking.", << >>),
                  Top.path)
    /\ stack' = Pop
    /\ UNCHANGED << viewVars, utxoValues, origValues, target, dustThreshold, utxos, candidates,
                    foundAnySolution, bestSolutionIndices, bestSolutionPath, phase,
                    scenario, prev >>

\* if (startIndex >= utxos.length) { recordStep(BACKTRACK); return }
Exhausted ==
    /\ Entering
    /\ ~IsSolution(Top.currentSum)
    /\ IsExhausted(Top.startIndex)
    /\ recordStep("BACKTRACK", Top.depth, Top.startIndex, Top.currentSelection,
                  Top.currentSum, Desc("End of branch reached. Backtracking.", << >>),
                  Top.path)
    /\ stack' = Pop
    /\ UNCHANGED << viewVars, utxoValues, origValues, target, dustThreshold, utxos, candidates,
                    foundAnySolution, bestSolutionIndices, bestSolutionPath, phase,
                    scenario, prev >>

\* if (currentSum + remaining < target) { recordStep(PRUNE_SUM); return }
PruneSum ==
    /\ Entering
    /\ ~IsSolution(Top.currentSum)
    /\ ~IsExhausted(Top.startIndex)
    /\ LET remaining == getRemainingSum(Top.startIndex) IN
          /\ PruneSumCond(Top.currentSum, remaining)
          /\ recordStep("PRUNE_SUM", Top.depth, Top.startIndex, Top.currentSelection,
                        Top.currentSum,
                        Desc("Pruned: Current + Remaining < Target",
                             << Top.currentSum, remaining, target >>),
                        Top.path)
    /\ stack' = Pop
    /\ UNCHANGED << viewVars, utxoValues, origValues, target, dustThreshold, utxos, candidates,
                    foundAnySolution, bestSolutionIndices, bestSolutionPath, phase,
                    scenario, prev >>

\* if (currentSum > target + dustThreshold) { recordStep(PRUNE_VAL); return }
PruneVal ==
    /\ Entering
    /\ ~IsSolution(Top.currentSum)
    /\ ~IsExhausted(Top.startIndex)
    /\ ~PruneSumCond(Top.currentSum, getRemainingSum(Top.startIndex))
    /\ PruneValCond(Top.currentSum)
    /\ recordStep("PRUNE_VAL", Top.depth, Top.startIndex, Top.currentSelection,
                  Top.currentSum,
                  Desc("Pruned: Current exceeds Target + Tolerance", << Top.currentSum >>),
                  Top.path)
    /\ stack' = Pop
    /\ UNCHANGED << viewVars, utxoValues, origValues, target, dustThreshold, utxos, candidates,
                    foundAnySolution, bestSolutionIndices, bestSolutionPath, phase,
                    scenario, prev >>

\* Mutant: the value of the included UTXO is not added.
SumWithStale(f) == f.currentSum

\* currentSum + currentUtxo.value
SumWith(f) == f.currentSum + utxos[f.startIndex + 1]

\* Mutant: the include call is given the 1-based position of the value.
IncludeFrameOneBased(f) ==
    Frame(f.depth + 1, Push(f.currentSelection, f.startIndex + 1),
          SumWith(f), f.startIndex + 1, Push(f.path, TRUE))

\* The frame the include branch calls backtrack with.
IncludeFrame(f) ==
    Frame(f.depth + 1, Push(f.currentSelection, f.startIndex),
          SumWith(f), f.startIndex + 1, Push(f.path, TRUE))

\* The frame the exclude branch calls backtrack with.
ExcludeFrame(f) ==
    Frame(f.depth + 1, f.currentSelection, f.currentSum, f.startIndex + 1,
          Push(f.path, FALSE))

\* BRANCH LEFT: recordStep(INCLUDE, ...); backtrack(depth + 1, ...)
BranchInclude ==
    /\ Entering
    /\ ~IsSolution(Top.currentSum)
    /\ ~IsExhausted(Top.startIndex)
    /\ ~PruneSumCond(Top.currentSum, getRemainingSum(Top.startIndex))
    /\ ~PruneValCond(Top.currentSum)
    /\ LET f == Top
           currentUtxo == utxos[f.startIndex + 1]
       IN  /\ recordStep("INCLUDE", f.depth, f.startIndex,
                         Push(f.currentSelection, f.startIndex),
                         SumWith(f),
                         Desc("Checking UTXO: INCLUDED", << f.startIndex, currentUtxo >>),
                         Push(f.path, TRUE))
           /\ stack' = Append(SetPc("included"), IncludeFrame(f))
    /\ UNCHANGED << viewVars, utxoValues, origValues, target, dustThreshold, utxos, candidates,
                    foundAnySolution, bestSolutionIndices, bestSolutionPath, phase,
                    scenario, prev >>

\* Mutant: backtrack returns after the include call, without the exclude
\* branch.
BranchExcludeSkipped ==
    /\ phase = "running" /\ stack # << >> /\ Top.pc = "included"
    /\ stack' = Pop
    /\ UNCHANGED << viewVars, utxoValues, origValues, target, dustThreshold, utxos, steps,
                    candidates, stepCounter, foundAnySolution, bestSolutionIndices,
                    bestSolutionPath, phase, scenario, prev >>

\* BRANCH RIGHT, once the include call has returned:
\* recordStep(EXCLUDE, ...); backtrack(depth + 1, ...)
BranchExclude ==
    /\ phase = "running" /\ stack # << >> /\ Top.pc = "included"
    /\ LET f == Top
           currentUtxo == utxos[f.startIndex + 1]
       IN  /\ recordStep("EXCLUDE", f.depth, f.startIndex, f.currentSelection,
                         f.currentSum,
                         Desc("Backtracking. Now checking UTXO: EXCLUDED",
                              << f.startIndex, currentUtxo >>),
                         Push(f.path, FALSE))
           /\ stack' = Append(SetPc("excluded"), ExcludeFrame(f))
    /\ UNCHANGED << viewVars, utxoValues, origValues, target, dustThreshold, utxos, candidates,
                    foundAnySolution, bestSolutionIndices, bestSolutionPath, phase,
                    scenario, prev >>

\* Mutant: COMPLETE is recorded at the end of backtrack, not after the
\* top-level call.
BranchReturnRecordsComplete ==
    /\ phase = "running" /\ stack # << >> /\ Top.pc = "excluded"
    /\ recordStep("COMPLETE", 0, 0, << >>, 0,
                  Desc("Search Complete. No solution found.", << >>), << >>)
    /\ stack' = Pop
    /\ UNCHANGED << viewVars, utxoValues, origValues, target, dustThreshold, utxos,
                    candidates, foundAnySolution, bestSolutionIndices,
                    bestSolutionPath, phase, scenario, prev >>

\* The exclude call has returned: backtrack falls off its end.
BranchReturn ==
    /\ phase = "running" /\ stack # << >> /\ Top.pc = "excluded"
    /\ stack' = Pop
    /\ UNCHANGED << viewVars, utxoValues, origValues, target, dustThreshold, utxos, steps,
                    candidates, stepCounter, foundAnySolution, bestSolutionIndices,
                    bestSolutionPath, phase, scenario, prev >>

\* Mutant: the outcome is taken from the best selection being non-empty.
MakeScenarioBySelection(finalSteps) ==
    [ utxos               |-> utxos,
      target              |-> target,
      steps               |-> finalSteps,
      outcome             |-> IF bestSolutionIndices # None /\ bestSolutionIndices[1] # << >>
                              THEN "success" ELSE "failure",
      bestSolutionIndices |-> bestSolutionIndices,
      bestSolutionPath    |-> bestSolutionPath,
      candidates          |-> candidates ]

\* The object generateScenario returns.
MakeScenario(finalSteps) ==
    [ utxos               |-> utxos,
      target              |-> target,
      steps               |-> finalSteps,
      outcome             |-> IF foundAnySolution THEN "success" ELSE "failure",
      bestSolutionIndices |-> bestSolutionIndices,
      bestSolutionPath    |-> bestSolutionPath,
      candidates          |-> candidates ]

\* The top-level call has returned: recordStep(COMPLETE, 0, 0, [], 0, ..., [])
\* and the return of the Scenario.
Complete ==
    /\ phase = "running" /\ stack = << >>
    /\ recordStep("COMPLETE", 0, 0, << >>, 0,
                  Desc(IF foundAnySolution
                       THEN "Search Complete. Best solution returned."
                       ELSE "Search Complete. No solution found.", << >>),
                  << >>)
    /\ scenario' = Some(MakeScenario(steps'))
    /\ phase' = "done"
    /\ UNCHANGED << viewVars, utxoValues, origValues, target, dustThreshold, utxos, candidates,
                    foundAnySolution, bestSolutionIndices, bestSolutionPath, stack,
                    prev >>

SearchStep ==
    \/ Solution
    \/ Exhausted
    \/ PruneSum
    \/ PruneVal
    \/ BranchInclude
    \/ BranchExclude
    \/ BranchReturn
    \/ Complete

Next ==
    \/ Invoke
    \/ SearchStep

Spec == Init /\ [][Next]_vars

\* The search is one synchronous computation: it is never suspended.
FairSpec == Spec /\ WF_vars(SearchStep)

\* How far below zero the unchecked arguments are drawn from.
NegMargin == 1

AnyValueSeqs ==
    UNION { [1..n -> (0 - NegMargin)..MaxValue] : n \in 0..MaxLen }

\* generateScenario takes any numbers: nothing in it tests its arguments.
InitAny ==
    /\ utxoValues \in AnyValueSeqs
    /\ origValues = utxoValues
    /\ target \in (0 - NegMargin)..MaxTarget
    /\ dustThreshold \in (0 - NegMargin)..MaxTol
    /\ utxos = << >>
    /\ steps = << >>
    /\ candidates = << >>
    /\ stepCounter = 0
    /\ foundAnySolution = FALSE
    /\ bestSolutionIndices = None
    /\ bestSolutionPath = None
    /\ stack = << >>
    /\ phase = "idle"
    /\ scenario = None
    /\ prev = None
    /\ mounted = FALSE
    /\ stepIndex = 0
    /\ isPlaying = FALSE
    /\ tree = None

\* The search on arguments of either sign.
SpecAny == InitAny /\ [][Next]_vars

\* The inputs of the worked examples; the last is App's DEFAULT_UTXOS with
\* DEFAULT_TARGET.  Each is << values, target, tolerance >>.
ExampleInputs ==
    { << << 60, 50, 25 >>, 110, 0 >>,
      << << 10, 10 >>, 25, 0 >>,
      << << 100 >>, 100, 0 >>,
      << << 100000, 60000, 55000, 50000, 25000, 10000 >>, 110000, 0 >> }

InitExamples ==
    /\ \E in \in ExampleInputs :
          /\ utxoValues = in[1]
          /\ target = in[2]
          /\ dustThreshold = in[3]
    /\ origValues = utxoValues
    /\ utxos = << >>
    /\ steps = << >>
    /\ candidates = << >>
    /\ stepCounter = 0
    /\ foundAnySolution = FALSE
    /\ bestSolutionIndices = None
    /\ bestSolutionPath = None
    /\ stack = << >>
    /\ phase = "idle"
    /\ scenario = None
    /\ prev = None
    /\ mounted = FALSE
    /\ stepIndex = 0
    /\ isPlaying = FALSE
    /\ tree = None

\* The search on the worked examples.
SpecExamples == InitExamples /\ [][Next]_vars

\* ----------------------------------------------------- TreeGraph (replay)
\* The tree is rebuilt from the trace on every render (useMemo over steps and
\* currentStepIndex).  Node coordinates are left out; a Map is the sequence
\* of its values in insertion order; an edge names its two nodes by id.

\* getPathId: p.map(b => b ? '1' : '0').join(''), a string as its characters.
getPathId(p) == [ i \in 1..Len(p) |-> IF p[i] THEN "1" ELSE "0" ]

\* nodeMap.has(id)
HasNode(nodes, id) == \E k \in 1..Len(nodes) : nodes[k].id = id

\* The position in the Map of the node nodeMap.get(id).
NodeAt(nodes, id) == CHOOSE k \in 1..Len(nodes) : nodes[k].id = id

\* The Map with its root node: status 'pending', no type.
RootOnly ==
    [ nodes |-> << [ id |-> getPathId(<< >>), path |-> << >>,
                     status |-> "pending", type |-> None ] >>,
      edges |-> << >> ]

\* Mutant: the edge is pushed outside the test that the child is new.
WalkOneAlwaysEdge(build, values, path, depthIdx) ==
    LET parentId == getPathId(SubSeq(path, 1, depthIdx))
        childPath == SubSeq(path, 1, depthIdx + 1)
        childId == getPathId(childPath)
        child == [ id |-> childId, path |-> childPath,
                   status |-> "visited", type |-> None ]
        edge == [ id |-> << parentId, childId >>,
                  source |-> parentId,
                  target |-> childId,
                  direction |-> path[depthIdx + 1],
                  utxoValue |-> IF depthIdx < Len(values)
                                THEN values[depthIdx + 1] ELSE 0 ]
    IN  [ nodes |-> IF HasNode(build.nodes, childId) THEN build.nodes
                    ELSE Append(build.nodes, child),
          edges |-> Append(build.edges, edge) ]

\* One iteration of step.path.forEach((direction, depthIdx) => ...).
WalkOne(build, values, path, depthIdx) ==
    LET parentId == getPathId(SubSeq(path, 1, depthIdx))
        childPath == SubSeq(path, 1, depthIdx + 1)
        childId == getPathId(childPath)
        hasParent == HasNode(build.nodes, parentId)
        child == [ id |-> childId, path |-> childPath,
                   status |-> "visited", type |-> None ]
        edge == [ id |-> << parentId, childId >>,
                  source |-> parentId,
                  target |-> childId,
                  direction |-> path[depthIdx + 1],
                  utxoValue |-> IF depthIdx < Len(values)
                                THEN values[depthIdx + 1] ELSE 0 ]
    IN  IF HasNode(build.nodes, childId) THEN build
        ELSE [ nodes |-> Append(build.nodes, child),
               edges |-> IF hasParent THEN Append(build.edges, edge)
                         ELSE build.edges ]

RECURSIVE WalkPath(_, _, _, _)
\* step.path.forEach(...): every node and edge on the way down exists after it.
WalkPath(build, values, path, depthIdx) ==
    IF depthIdx >= Len(path) THEN build
    ELSE WalkPath(WalkOne(build, values, path, depthIdx), values, path, depthIdx + 1)

IsPruneType(type) == type = "PRUNE_SUM" \/ type = "PRUNE_VAL"

\* Mutant: the first block sets 'active' for every step, not only for the
\* step at the cursor.
TouchedAlwaysActive(node, step, i, currentStepIndex) ==
    LET s2 == IF IsPruneType(step.type) THEN "pruned" ELSE "active"
        s3 == IF step.type = "SOLUTION" THEN "solution" ELSE s2
    IN  IF i = currentStepIndex /\ (IsPruneType(step.type) \/ step.type = "SOLUTION")
        THEN [ node EXCEPT !.status = s3, !.type = Some(step.type) ]
        ELSE [ node EXCEPT !.status = s3 ]

\* The status and type the node of step i has after the update block, given
\* what it had.
Touched(node, step, i, currentStepIndex) ==
    LET s1 == IF i = currentStepIndex THEN "active"
              ELSE IF node.status # "pruned" /\ node.status # "solution"
                   THEN "visited" ELSE node.status
        s2 == IF IsPruneType(step.type) THEN "pruned" ELSE s1
        s3 == IF step.type = "SOLUTION" THEN "solution" ELSE s2
    IN  IF i = currentStepIndex
        THEN IF IsPruneType(step.type)
             THEN [ node EXCEPT !.status = "pruned", !.type = Some(step.type) ]
             ELSE IF step.type = "SOLUTION"
                  THEN [ node EXCEPT !.status = "solution", !.type = Some(step.type) ]
                  ELSE [ node EXCEPT !.status = "active" ]
        ELSE [ node EXCEPT !.status = s3 ]

\* The body of the loop for step i (0-based).
ReplayStep(build, trace, values, i, currentStepIndex) ==
    LET step == trace[i + 1]
        walked == WalkPath(build, values, step.path, 0)
        id == getPathId(step.path)
    IN  IF HasNode(walked.nodes, id)
        THEN LET k == NodeAt(walked.nodes, id) IN
             [ walked EXCEPT
                 !.nodes[k] = Touched(walked.nodes[k], step, i, currentStepIndex) ]
        ELSE walked

RECURSIVE ReplayLoopLooksAhead(_, _, _, _, _)
\* Mutant: the loop runs one step past the cursor when the trace has one.
ReplayLoopLooksAhead(build, trace, values, i, currentStepIndex) ==
    IF build.nodes = << >> \/ i > currentStepIndex + 1 \/ i >= Len(trace) THEN build
    ELSE ReplayLoopLooksAhead(ReplayStep(build, trace, values, i, currentStepIndex),
                              trace, values, i + 1, currentStepIndex)

RECURSIVE ReplayLoop(_, _, _, _, _)
\* for (let i = 0; i <= currentStepIndex; i++) { ... }
\* The Map always holds the root, so the first test never ends the loop: it
\* makes TLC evaluate each iteration before it enters the next one.
ReplayLoop(build, trace, values, i, currentStepIndex) ==
    IF build.nodes = << >> \/ i > currentStepIndex THEN build
    ELSE ReplayLoop(ReplayStep(build, trace, values, i, currentStepIndex),
                    trace, values, i + 1, currentStepIndex)

\* The useMemo of TreeGraph.  steps[i] is undefined from i = steps.length on,
\* and reading its path throws: the render has no result then.
BuildTree(trace, values, currentStepIndex) ==
    IF currentStepIndex >= Len(trace)
    THEN [ threw |-> TRUE, nodes |-> << >>, edges |-> << >> ]
    ELSE LET built == ReplayLoop(RootOnly, trace, values, 0, currentStepIndex)
         IN  [ threw |-> FALSE, nodes |-> built.nodes, edges |-> built.edges ]

\* isPrefix of the replay: prefix.length <= fullPath.length and every element
\* of prefix equals the element of fullPath at its index.
IsPrefix(prefix, fullPath) ==
    IF Len(prefix) > Len(fullPath) THEN FALSE
    ELSE \A i \in 1..Len(prefix) : prefix[i] = fullPath[i]

\* Mutant: < in place of <=, hiding the candidate found at the cursor step.
VisibleCandidatesStrict(cands, currentStepIndex) ==
    SelectSeq(cands, LAMBDA c : c.stepIndex < currentStepIndex)

\* candidates.filter(c => c.stepIndex <= currentStepIndex)
VisibleCandidates(cands, currentStepIndex) ==
    SelectSeq(cands, LAMBDA c : c.stepIndex <= currentStepIndex)

\* getPathStatus(path), with the props it reads.
getPathStatus(path, best, cands, currentStepIndex) ==
    IF best # None /\ IsPrefix(path, best[1]) /\ Len(path) <= Len(best[1])
    THEN "best"
    ELSE IF \E k \in 1..Len(VisibleCandidates(cands, currentStepIndex)) :
               LET cand == VisibleCandidates(cands, currentStepIndex)[k] IN
               IsPrefix(path, cand.path) /\ Len(path) <= Len(cand.path)
         THEN "candidate"
         ELSE "none"

\* One render of TreeGraph with the given props: the tree, and the lineage
\* status the render computes for every node.
RenderTree(trace, values, best, cands, currentStepIndex) ==
    LET built == BuildTree(trace, values, currentStepIndex) IN
    [ currentStepIndex |-> currentStepIndex,
      bestSolutionPath |-> best,
      threw            |-> built.threw,
      nodes            |-> built.nodes,
      edges            |-> built.edges,
      lineage          |-> [ k \in 1..Len(built.nodes) |->
                               getPathStatus(built.nodes[k].path, best, cands,
                                             currentStepIndex) ] ]

\* How far outside the trace a caller's cursor is drawn from.
CursorMargin == 1

\* TreeGraph is mounted by some caller on the returned Scenario and renders:
\* any cursor, with or without the best path.
RenderTreeGraph ==
    /\ phase = "done"
    /\ ~mounted
    /\ tree = None
    /\ \E c \in (0 - CursorMargin)..(Len(scenario[1].steps) - 1 + CursorMargin) :
       \E best \in { None, scenario[1].bestSolutionPath } :
          tree' = Some(RenderTree(scenario[1].steps, scenario[1].utxos, best,
                                  scenario[1].candidates, c))
    /\ UNCHANGED << utxoValues, origValues, target, dustThreshold, utxos, steps,
                    candidates, stepCounter, foundAnySolution, bestSolutionIndices,
                    bestSolutionPath, stack, phase, scenario, prev, mounted,
                    stepIndex, isPlaying >>

\* The first call of generateScenario (App: Initial Load).
Start == phase = "idle" /\ Invoke

ReplayNext ==
    \/ Start
    \/ SearchStep
    \/ RenderTreeGraph

\* One search, then renders of TreeGraph on its Scenario.
SpecReplay == Init /\ [][ReplayNext]_vars

\* ------------------------------------------------------------- Visualizer
\* The stepper over the returned Scenario.  Every change of stepIndex is
\* followed by a render, which renders TreeGraph with the props below; the
\* speed of the timer is left out.

\* scenario.steps.length - 1
LastIndex == Len(scenario[1].steps) - 1

\* const isLastStep = stepIndex === scenario.steps.length - 1
IsLastStep(idx) == idx = LastIndex

\* Mutant: the best path is supplied at every step but the last.
WiredBestPathNotLast(idx) ==
    IF ~IsLastStep(idx) /\ scenario[1].outcome = "success"
    THEN scenario[1].bestSolutionPath ELSE None

\* bestSolutionPath={isLastStep && scenario.outcome === 'success'
\*                   ? scenario.bestSolutionPath : undefined}
WiredBestPath(idx) ==
    IF IsLastStep(idx) /\ scenario[1].outcome = "success"
    THEN scenario[1].bestSolutionPath ELSE None

\* <TreeGraph steps={scenario.steps} currentStepIndex={stepIndex} ... />
VisualizerTree(idx) ==
    Some(RenderTree(scenario[1].steps, scenario[1].utxos, WiredBestPath(idx),
                    scenario[1].candidates, idx))

searchVars == << utxoValues, origValues, target, dustThreshold, utxos, steps,
                 candidates, stepCounter, foundAnySolution, bestSolutionIndices,
                 bestSolutionPath, stack, phase, scenario, prev >>

\* App shows the Visualizer for the Scenario: useState(0), useState(false).
Mount ==
    /\ phase = "done"
    /\ ~mounted
    /\ tree = None
    /\ mounted' = TRUE
    /\ stepIndex' = 0
    /\ isPlaying' = FALSE
    /\ tree' = VisualizerTree(0)
    /\ UNCHANGED searchVars

\* onClick={() => setStepIndex(0)}, disabled at stepIndex === 0
Restart ==
    /\ mounted
    /\ stepIndex # 0
    /\ stepIndex' = 0
    /\ tree' = VisualizerTree(0)
    /\ UNCHANGED << searchVars, mounted, isPlaying >>

\* onClick={() => setStepIndex(Math.max(0, stepIndex - 1))}, disabled at 0
StepBack ==
    /\ mounted
    /\ stepIndex # 0
    /\ LET idx == IF stepIndex - 1 > 0 THEN stepIndex - 1 ELSE 0 IN
          /\ stepIndex' = idx
          /\ tree' = VisualizerTree(idx)
    /\ UNCHANGED << searchVars, mounted, isPlaying >>

\* onClick={() => setStepIndex(Math.min(steps.length - 1, stepIndex + 1))},
\* disabled at the last step
StepForward ==
    /\ mounted
    /\ ~IsLastStep(stepIndex)
    /\ LET idx == IF stepIndex + 1 < LastIndex THEN stepIndex + 1 ELSE LastIndex IN
          /\ stepIndex' = idx
          /\ tree' = VisualizerTree(idx)
    /\ UNCHANGED << searchVars, mounted, isPlaying >>

\* handlePlayToggle
PlayToggle ==
    /\ mounted
    /\ IF IsLastStep(stepIndex) /\ ~isPlaying
       THEN /\ stepIndex' = 0
            /\ isPlaying' = TRUE
            /\ tree' = VisualizerTree(0)
       ELSE /\ isPlaying' = ~isPlaying
            /\ UNCHANGED << stepIndex, tree >>
    /\ UNCHANGED << searchVars, mounted >>

\* Mutant: the updater returns prev + 1 without the test for the last step.
TickNoStop ==
    /\ mounted
    /\ isPlaying
    /\ stepIndex' = stepIndex + 1
    /\ tree' = VisualizerTree(stepIndex + 1)
    /\ UNCHANGED isPlaying
    /\ UNCHANGED << searchVars, mounted >>

\* The interval set while isPlaying fires: setStepIndex(prev => ...)
Tick ==
    /\ mounted
    /\ isPlaying
    /\ IF stepIndex >= LastIndex
       THEN /\ isPlaying' = FALSE
            /\ UNCHANGED << stepIndex, tree >>
       ELSE /\ stepIndex' = stepIndex + 1
            /\ tree' = VisualizerTree(stepIndex + 1)
            /\ UNCHANGED isPlaying
    /\ UNCHANGED << searchVars, mounted >>

ViewNext ==
    \/ Start
    \/ SearchStep
    \/ Mount
    \/ Restart
    \/ StepBack
    \/ StepForward
    \/ PlayToggle
    \/ Tick

\* One search, then the Visualizer on its Scenario.
SpecView == Init /\ [][ViewNext]_vars

cursorVars == << stepIndex, isPlaying >>

\* What the interval callback does to the two state hooks:
\* setStepIndex(prev => prev >= steps.length - 1 ? (setIsPlaying(false), prev)
\*                                               : prev + 1)
TickCursor ==
    /\ mounted
    /\ isPlaying
    /\ IF stepIndex >= LastIndex
       THEN isPlaying' = FALSE /\ stepIndex' = stepIndex
       ELSE stepIndex' = stepIndex + 1 /\ isPlaying' = isPlaying

\* While isPlaying the interval keeps firing every `speed` milliseconds.
SpecViewFair == SpecView /\ WF_cursorVars(TickCursor)

\* ------------------------------------------------- vocabulary of the claims
RECURSIVE PathSumFrom(_, _, _)
PathSumFrom(vals, path, k) ==
    IF k > Len(path) \/ k > Len(vals) THEN 0
    ELSE (IF path[k] THEN vals[k] ELSE 0) + PathSumFrom(vals, path, k + 1)

\* The sum of vals[k] over the positions k at which path is true.
PathSum(vals, path) == PathSumFrom(vals, path, 1)

\* The sums of all subsets of the values of arr (a subset is a choice of
\* positions).
SubsetSums(arr) == { PathSum(arr, m) : m \in [1..Len(arr) -> BOOLEAN] }

Parent(path) == SubSeq(path, 1, Len(path) - 1)

StepsOfType(trace, type) == { i \in 1..Len(trace) : trace[i].type = type }

Returned == scenario[1]

\* ------------------------------------------------------------------- claims

\* C1: when generateScenario has returned, the outcome is 'success' if and
\* only if some subset of the values the caller passed has a sum s with
\* target <= s <= target + tolerance.
C1_SuccessIffSubsetInRange ==
    phase = "done" =>
        ( Returned.outcome = "success"
          <=> \E s \in SubsetSums(origValues) :
                  target <= s /\ s <= target + dustThreshold )

\* C1 witness: a successful search in which both prune rules cut a branch.
C1_Witness ==
    /\ phase = "done"
    /\ Returned.outcome = "success"
    /\ StepsOfType(steps, "PRUNE_SUM") # {}
    /\ StepsOfType(steps, "PRUNE_VAL") # {}

\* The returned trace has exactly one COMPLETE step, the last one, with depth
\* 0 and the empty path.
CompleteIsLast(trace) ==
    /\ trace # << >>
    /\ StepsOfType(trace, "COMPLETE") = { Len(trace) }
    /\ trace[Len(trace)].depth = 0
    /\ trace[Len(trace)].path = << >>

\* C2: every started search terminates (returns), and the returned trace
\* contains exactly one COMPLETE step, which is its last step and has depth 0
\* and the empty path.
C2_TerminatesWithOneComplete ==
    /\ [](phase = "done" => CompleteIsLast(Returned.steps))
    /\ (phase = "running" ~> phase = "done")

\* C2 witness: a search that branched over every value has returned.
C2_Witness ==
    /\ phase = "done"
    /\ Len(utxos) = MaxLen
    /\ \E i \in 1..Len(steps) : steps[i].depth = MaxLen

\* C3: every SOLUTION step of the trace has currentSum = target or
\* target < currentSum <= target + tolerance.
C3_SolutionSumInRange ==
    \A i \in StepsOfType(steps, "SOLUTION") :
        \/ steps[i].currentSum = target
        \/ (target < steps[i].currentSum /\ steps[i].currentSum <= target + dustThreshold)

\* C3 witness: a SOLUTION step whose sum is above the target, within tolerance.
C3_Witness ==
    \E i \in StepsOfType(steps, "SOLUTION") : steps[i].currentSum > target

\* C4: for every step of the trace, of every kind, currentSum is the sum of
\* the sorted values at the positions where the step's path is true.
C4_SumMatchesPath ==
    \A i \in 1..Len(steps) : steps[i].currentSum = PathSum(utxos, steps[i].path)

\* C4 witness: a finished trace with an INCLUDE step of positive sum below
\* the root's children and an EXCLUDE step that keeps a positive sum.
C4_Witness ==
    /\ phase = "done"
    /\ \E i \in StepsOfType(steps, "INCLUDE") :
          steps[i].depth >= 1 /\ steps[i].currentSum > utxos[steps[i].utxoIndex + 1]
    /\ \E i \in StepsOfType(steps, "EXCLUDE") : steps[i].currentSum > 0

\* A prune condition of backtrack at a node with the given sum and number of
\* values already considered.
PruneHoldsAt(sum, considered) ==
    \/ sum + SumFrom(utxos, considered) < target
    \/ sum > target + dustThreshold

BranchSteps == StepsOfType(steps, "INCLUDE") \cup StepsOfType(steps, "EXCLUDE")

\* C5 as stated: for every INCLUDE/EXCLUDE step, no prune condition holds at
\* the node identified by the step's path with the step's currentSum.
C5_Original ==
    \A i \in BranchSteps :
        ~PruneHoldsAt(steps[i].currentSum, Len(steps[i].path))

\* C5 amended: for every INCLUDE/EXCLUDE step, no prune condition holds at
\* the node that branches, i.e. the parent of the step's path, with that
\* node's sum and the values not yet considered there.
C5_NoPruneAtBranchingNode ==
    \A i \in BranchSteps :
        /\ steps[i].path # << >>
        /\ ~PruneHoldsAt(PathSum(utxos, Parent(steps[i].path)), Len(steps[i].path) - 1)

\* C5 witness: an INCLUDE step whose own node overshoots and an EXCLUDE step
\* whose own node can no longer reach the target.
C5_Witness ==
    /\ \E i \in StepsOfType(steps, "INCLUDE") :
          steps[i].currentSum > target + dustThreshold
    /\ \E i \in StepsOfType(steps, "EXCLUDE") :
          steps[i].currentSum + SumFrom(utxos, Len(steps[i].path)) < target

\* The positions of the trace whose path lies in the subtree rooted at q.
InSubtree(trace, q) == { k \in 1..Len(trace) : IsPrefix(q, trace[k].path) }

Sibling(path) == Append(Parent(path), ~path[Len(path)])

\* In a trace, the node branched at INCLUDE step i is laid out as the INCLUDE
\* step, its subtree, the EXCLUDE step of the same node, its subtree.
BranchLaidOut(trace, i) ==
    LET q == trace[i].path
        r == Sibling(q)
        inc == InSubtree(trace, q)
        exc == InSubtree(trace, r)
    IN  \E j \in (i + 1)..Len(trace) :
            /\ trace[j].type = "EXCLUDE"
            /\ trace[j].path = r
            /\ inc = i..(j - 1)
            /\ \E m \in j..Len(trace) : exc = j..m

\* C6: in the returned trace every INCLUDE step at P+[true] is followed by
\* exactly the steps of its subtree, then by the EXCLUDE step at P+[false],
\* then by exactly the steps of that subtree; every EXCLUDE step belongs to
\* an earlier INCLUDE step of the same node; and at no moment of the search
\* does a step of the exclude subtree precede one of the include subtree.
C6_BranchOrder ==
    /\ \A i \in StepsOfType(steps, "INCLUDE") :
          LET q == steps[i].path IN
          /\ q # << >> /\ q[Len(q)] = TRUE
          /\ \A k \in InSubtree(steps, q) : k >= i
          /\ \A k \in InSubtree(steps, Sibling(q)) :
                \A l \in InSubtree(steps, q) : l < k
    /\ \A j \in StepsOfType(steps, "EXCLUDE") :
          LET r == steps[j].path IN
          /\ r # << >> /\ r[Len(r)] = FALSE
          /\ \E i \in 1..(j - 1) :
                steps[i].type = "INCLUDE" /\ steps[i].path = Sibling(r)
    /\ phase = "done" =>
          \A i \in StepsOfType(Returned.steps, "INCLUDE") :
              BranchLaidOut(Returned.steps, i)

\* C6 witness: a returned trace in which both subtrees of the root hold
\* further branches.
C6_Witness ==
    /\ phase = "done"
    /\ \E i, j \in StepsOfType(steps, "INCLUDE") :
          steps[i].path = << TRUE, TRUE >> /\ steps[j].path = << FALSE, TRUE >>

RECURSIVE IndicesFrom(_, _)
IndicesFrom(path, k) ==
    IF k > Len(path) THEN << >>
    ELSE (IF path[k] THEN << k - 1 >> ELSE << >>) \o IndicesFrom(path, k + 1)

\* The 0-based positions at which path is true, in increasing order.
IndicesOf(path) == IndicesFrom(path, 1)

\* The paths of the SOLUTION steps of a trace, in trace order.
RECURSIVE SolutionPaths(_)
SolutionPaths(trace) ==
    IF trace = << >> THEN << >>
    ELSE SolutionPaths(Parent(trace)) \o
         (IF trace[Len(trace)].type = "SOLUTION" THEN << trace[Len(trace)].path >>
          ELSE << >>)

\* C7: once a candidate was found, the best path and the best selection are
\* those of the last candidate of the list, the best selection is the list of
\* positions where the best path is true, and the candidate list is in
\* discovery order (the order of the SOLUTION steps of the trace); the
\* returned Scenario carries the same.
C7_BestIsLastCandidate ==
    /\ candidates # << >> =>
          /\ bestSolutionPath = Some(candidates[Len(candidates)].path)
          /\ bestSolutionIndices = Some(IndicesOf(candidates[Len(candidates)].path))
    /\ [ k \in 1..Len(candidates) |-> candidates[k].path ] = SolutionPaths(steps)
    /\ \A k \in 1..(Len(candidates) - 1) :
          candidates[k].stepIndex < candidates[k + 1].stepIndex
    /\ (phase = "done" /\ Returned.candidates # << >>) =>
          LET c == Returned.candidates IN
          /\ c = candidates
          /\ Returned.bestSolutionPath = Some(c[Len(c)].path)
          /\ Returned.bestSolutionIndices = Some(IndicesOf(c[Len(c)].path))

\* C7 witness: a returned Scenario with several candidates, the best one
\* being a later one with a different path and a non-empty selection.
C7_Witness ==
    /\ phase = "done"
    /\ Len(Returned.candidates) >= 3
    /\ Returned.bestSolutionPath # Some(Returned.candidates[1].path)
    /\ Returned.bestSolutionIndices # Some(<< >>)

\* C8: every candidate's stepIndex is the id and the position of a SOLUTION
\* step with the candidate's path and value, and every SOLUTION step has
\* exactly one candidate, so there are as many candidates as SOLUTION steps.
C8_CandidatesMatchSolutionSteps ==
    /\ \A k \in 1..Len(candidates) :
          LET c == candidates[k] IN
          /\ c.stepIndex + 1 \in StepsOfType(steps, "SOLUTION")
          /\ steps[c.stepIndex + 1].stepId = c.stepIndex
          /\ steps[c.stepIndex + 1].path = c.path
          /\ steps[c.stepIndex + 1].currentSum = c.value
    /\ \A i \in StepsOfType(steps, "SOLUTION") :
          Cardinality({ k \in 1..Len(candidates) : candidates[k].stepIndex = i - 1 }) = 1
    /\ Len(candidates) = Cardinality(StepsOfType(steps, "SOLUTION"))

\* C8 witness: two candidates recorded, the later one at a step id above 3.
C8_Witness ==
    /\ Len(candidates) >= 2
    /\ candidates[Len(candidates)].stepIndex > 3

\* C9: the returned outcome is 'success' if and only if a candidate was
\* recorded, if and only if the trace has a SOLUTION step; with outcome
\* 'failure' the candidate list is empty and the best path and the best
\* selection are undefined.
C9_OutcomeIffCandidate ==
    phase = "done" =>
        /\ Returned.outcome \in { "success", "failure" }
        /\ Returned.outcome = "success" <=> Returned.candidates # << >>
        /\ Returned.outcome = "success" <=> StepsOfType(Returned.steps, "SOLUTION") # {}
        /\ Returned.outcome = "failure" =>
              /\ Returned.candidates = << >>
              /\ Returned.bestSolutionPath = None
              /\ Returned.bestSolutionIndices = None

\* C9 witness: a search that branched and returned the outcome 'failure'.
C9_WitnessFailure ==
    /\ phase = "done"
    /\ Returned.outcome = "failure"
    /\ StepsOfType(Returned.steps, "INCLUDE") # {}

\* C10: a second invocation on the same values, target and tolerance returns
\* the Scenario the invocation before it returned: the same trace (ids,
\* kinds, depths, indices, selections, sums, remaining values, paths, in
\* order), the same candidates and the same best path.
C10_Deterministic ==
    (phase = "done" /\ prev # None) => scenario = prev

\* C10 witness: a second invocation has returned a trace with a solution and
\* a pruned branch.
C10_Witness ==
    /\ phase = "done"
    /\ prev # None
    /\ Len(Returned.candidates) >= 1
    /\ StepsOfType(Returned.steps, "PRUNE_SUM") # {}

\* C11 as stated: generateScenario leaves the caller's array as it was, the
\* same elements in the same order.
C11_InputUnchanged ==
    phase # "idle" => utxoValues = origValues

\* Arguments the contract calls invalid.
InvalidInput ==
    \/ \E k \in 1..Len(origValues) : origValues[k] < 0
    \/ target < 0
    \/ dustThreshold < 0

\* C12 as stated: for a negative value, target or tolerance no step is
\* recorded and no Scenario is returned.
C12_InvalidInputRejected ==
    InvalidInput => (steps = << >> /\ scenario = None)

\* The tree of the latest render.
Tree == tree[1]

InRange(c, trace) == 0 <= c /\ c <= Len(trace) - 1

\* A render of TreeGraph at a cursor inside the trace.
Rendered ==
    tree # None /\ phase = "done" /\ InRange(Tree.currentStepIndex, Returned.steps)

NonEmptyPrefixes(path) == { SubSeq(path, 1, k) : k \in 1..Len(path) }

\* The paths a replay up to cursor i (0-based) has to show.
ExpectedPaths(trace, i) ==
    { << >> } \cup UNION { NonEmptyPrefixes(trace[k].path) : k \in 1..(i + 1) }

NodePaths(nodes) == { nodes[k].path : k \in 1..Len(nodes) }

\* C13: at every cursor inside the trace the nodes are, without duplicates,
\* the root and every non-empty prefix of the path of a step up to the cursor;
\* every non-root node has exactly one edge into it, from the node of its
\* path without the last element, with that element as direction; there is
\* no other edge (edges = nodes - 1); and the next cursor shows at least the
\* same nodes (so does every later one, this holding at every cursor).
C13_ReplayReconstruction ==
    Rendered =>
        LET i == Tree.currentStepIndex
            nodes == Tree.nodes
            edges == Tree.edges
        IN  /\ ~Tree.threw
            /\ NodePaths(nodes) = ExpectedPaths(Returned.steps, i)
            /\ Len(nodes) = Cardinality(NodePaths(nodes))
            /\ \A k \in 1..Len(nodes) : nodes[k].id = getPathId(nodes[k].path)
            /\ Len(edges) = Len(nodes) - 1
            /\ \A k \in 1..Len(nodes) :
                  nodes[k].path # << >> =>
                      \E e \in 1..Len(edges) :
                          /\ edges[e].target = nodes[k].id
                          /\ edges[e].source = getPathId(Parent(nodes[k].path))
                          /\ edges[e].direction = nodes[k].path[Len(nodes[k].path)]
            /\ i + 1 <= Len(Returned.steps) - 1 =>
                  NodePaths(nodes) \subseteq
                      NodePaths(BuildTree(Returned.steps, Returned.utxos, i + 1).nodes)

\* C13 witness: a render in the middle of a trace with nodes at depth 2 on
\* both sides of the root, several steps having passed through the same node.
C13_Witness ==
    /\ Rendered
    /\ Tree.currentStepIndex < Len(Returned.steps) - 1
    /\ { << TRUE, TRUE >>, << TRUE, FALSE >>, << FALSE, TRUE >> }
           \subseteq NodePaths(Tree.nodes)

\* P is a prefix of Q, by comparing Q's first Len(P) elements with P.
PrefixOf(p, q) == Len(p) <= Len(q) /\ SubSeq(q, 1, Len(p)) = p

\* The lineage class the contract gives path p at cursor i.
ExpectedLineage(p, best, cands, i) ==
    IF best # None /\ PrefixOf(p, best[1]) THEN "best"
    ELSE IF \E k \in 1..Len(cands) :
               cands[k].stepIndex <= i /\ PrefixOf(p, cands[k].path)
         THEN "candidate"
         ELSE "none"

\* C14: for every node of a render, getPathStatus is 'best' iff a best path
\* is supplied and the node's path is a prefix of it; otherwise 'candidate'
\* iff a candidate with stepIndex <= cursor has the path as a prefix;
\* otherwise 'none'.
C14_LineageClassification ==
    Rendered =>
        \A k \in 1..Len(Tree.nodes) :
            Tree.lineage[k] =
                ExpectedLineage(Tree.nodes[k].path, Tree.bestSolutionPath,
                                Returned.candidates, Tree.currentStepIndex)

\* C14 witness: one render shows a node on the best lineage, a node on a
\* visible candidate's lineage only, and a node classified 'none' although it
\* is the path of a candidate whose SOLUTION step lies after the cursor.
C14_Witness ==
    /\ Rendered
    /\ \E a, b, c \in 1..Len(Tree.nodes) :
          /\ Tree.lineage[a] = "best"
          /\ Tree.lineage[b] = "candidate"
          /\ Tree.lineage[c] = "none"
          /\ \E k \in 1..Len(Returned.candidates) :
                /\ Returned.candidates[k].path = Tree.nodes[c].path
                /\ Returned.candidates[k].stepIndex > Tree.currentStepIndex

\* The status of the node with the given path in a tree, None if absent.
StatusIn(nodes, path) ==
    IF \E k \in 1..Len(nodes) : nodes[k].path = path
    THEN Some(nodes[CHOOSE k \in 1..Len(nodes) : nodes[k].path = path].status)
    ELSE None

\* Every node that is 'pruned' or 'solution' in the render has the same status
\* at every later cursor.
TerminalPersistsFor(nodes) ==
    \A k \in 1..Len(nodes) :
        nodes[k].status \in { "pruned", "solution" } =>
            \A j \in (Tree.currentStepIndex + 1)..(Len(Returned.steps) - 1) :
                StatusIn(BuildTree(Returned.steps, Returned.utxos, j).nodes,
                         nodes[k].path) = Some(nodes[k].status)

\* C15 as stated: a node that is 'pruned' (resp. 'solution') at cursor i is
\* 'pruned' (resp. 'solution') at every cursor j > i, the root included.
C15_TerminalPersists ==
    Rendered => TerminalPersistsFor(Tree.nodes)

\* C17 as stated: a cursor outside [0, |trace| - 1] is signalled or clamped to
\* the boundary; no projection is returned for the cursor itself.
C17_OutOfRangeHandled ==
    (tree # None /\ phase = "done"
        /\ ~InRange(Tree.currentStepIndex, Returned.steps)) =>
        LET clamped == IF Tree.currentStepIndex < 0 THEN 0
                       ELSE Len(Returned.steps) - 1
            atBoundary == BuildTree(Returned.steps, Returned.utxos, clamped)
        IN  \/ Tree.threw
            \/ (Tree.nodes = atBoundary.nodes /\ Tree.edges = atBoundary.edges)

\* C16: a node classified 'best' at a cursor is classified 'best' at every
\* later cursor, both when the final Scenario's best path is supplied at
\* every cursor and with the Visualizer's wiring, which supplies it only at
\* the last step of a successful Scenario.
C16_BestStaysBest ==
    mounted =>
        \A k \in 1..Len(Tree.nodes) :
            \A j \in (stepIndex + 1)..LastIndex :
                LET p == Tree.nodes[k].path
                    cands == Returned.candidates
                IN  /\ getPathStatus(p, Returned.bestSolutionPath, cands, stepIndex) = "best"
                          => getPathStatus(p, Returned.bestSolutionPath, cands, j) = "best"
                    /\ Tree.lineage[k] = "best"
                          => getPathStatus(p, WiredBestPath(j), cands, j) = "best"

\* C16 witness: the Visualizer stands before the last step of a successful
\* Scenario, at a node on the best path that is not on the lineage of any
\* candidate visible so far.
C16_Witness ==
    /\ mounted
    /\ stepIndex < LastIndex
    /\ Returned.outcome = "success"
    /\ \E k \in 1..Len(Tree.nodes) :
          /\ Tree.nodes[k].path # << >>
          /\ Tree.lineage[k] = "none"
          /\ getPathStatus(Tree.nodes[k].path, Returned.bestSolutionPath,
                           Returned.candidates, stepIndex) = "best"

\* The sum of vals at the 0-based positions above idx.
SumAbove(vals, idx) == PathSum(vals, [ k \in 1..Len(vals) |-> k - 1 > idx ])

\* C18: for every step, remainingValue is the sum of the sorted values at the
\* positions idx + 1 and above, idx being the step's utxoIndex (nextIndex - 1
\* on a SOLUTION step, n on a BACKTRACK step).
C18_RemainingFromStepIndex ==
    \A i \in 1..Len(steps) :
        /\ steps[i].remainingValue = SumAbove(utxos, steps[i].utxoIndex)
        /\ steps[i].type = "BACKTRACK" => steps[i].utxoIndex = Len(utxos)
        /\ steps[i].type = "SOLUTION" => steps[i].utxoIndex = Len(steps[i].path) - 1

\* C18 witness: a trace with a SOLUTION step that leaves a positive remaining
\* value and a BACKTRACK step.
C18_Witness ==
    /\ phase = "done"
    /\ \E i \in StepsOfType(steps, "SOLUTION") : steps[i].remainingValue > 0
    /\ StepsOfType(steps, "BACKTRACK") # {}

Count(arr, v) == Cardinality({ k \in 1..Len(arr) : arr[k] = v })

\* C19: once generateScenario has sorted, the value list is in descending
\* order, it is a permutation of the values the caller passed, index 0 holds
\* the largest value, and the returned Scenario carries that list.
C19_SortedDescending ==
    phase # "idle" =>
        /\ \A i, j \in 1..Len(utxos) : i < j => utxos[i] >= utxos[j]
        /\ Len(utxos) = Len(origValues)
        /\ \A v \in 0..MaxValue : Count(utxos, v) = Count(origValues, v)
        /\ \A k \in 1..Len(origValues) : utxos[1] >= origValues[k]
        /\ phase = "done" => Returned.utxos = utxos

\* C19 witness: an input in strictly ascending order with MaxLen values has
\* been sorted and searched.
C19_Witness ==
    /\ phase = "done"
    /\ Len(origValues) = MaxLen
    /\ \A k \in 1..(Len(origValues) - 1) : origValues[k] < origValues[k + 1]

\* The search on values = [60, 50, 25], target = 110, tolerance 0 has returned.
Example3Done ==
    /\ phase = "done"
    /\ origValues = << 60, 50, 25 >>
    /\ target = 110
    /\ dustThreshold = 0

\* In the returned trace a candidate of sum 110 was found at path p, and
\* after its SOLUTION step and before the COMPLETE step there are steps in the
\* [true, false, ...] subtree and in the [false, ...] subtree.
CandidateThenBothSubtrees(p) ==
    \E k \in 1..Len(Returned.candidates) :
        LET c == Returned.candidates[k]
            trace == Returned.steps
            after == { i \in (c.stepIndex + 2)..(Len(trace) - 1) :
                           trace[i].type # "COMPLETE" }
        IN  /\ c.path = p
            /\ c.value = 110
            /\ trace[c.stepIndex + 1].type = "SOLUTION"
            /\ \E i \in after : IsPrefix(<< TRUE, FALSE >>, trace[i].path)
            /\ \E i \in after : IsPrefix(<< FALSE >>, trace[i].path)
            /\ trace[Len(trace)].type = "COMPLETE"

\* C20 as stated: the candidate is found at path [true, true, false].
C20_Original ==
    Example3Done => CandidateThenBothSubtrees(<< TRUE, TRUE, FALSE >>)

\* C20 amended: the candidate is found at path [true, true], the node where
\* 60 + 50 reaches the target, before the value 25 is considered.
C20_CandidateAtTrueTrue ==
    Example3Done =>
        /\ CandidateThenBothSubtrees(<< TRUE, TRUE >>)
        /\ Len(Returned.candidates) = 1

\* C20 witness: the search on the example has returned with outcome success.
C20_Witness ==
    Example3Done /\ Returned.outcome = "success"

\* The search on values = [10, 10], target = 25, tolerance 0 has returned.
Example2Done ==
    /\ phase = "done"
    /\ origValues = << 10, 10 >>
    /\ target = 25
    /\ dustThreshold = 0

\* The steps of trace whose type ends a branch without a solution.
DeadEnds(trace) ==
    StepsOfType(trace, "PRUNE_SUM") \cup StepsOfType(trace, "BACKTRACK")

\* C21 as stated: the trace has an INCLUDE branch for each of the two values,
\* each ending in PRUNE_SUM or BACKTRACK; outcome 'failure', no best path.
C21_Original ==
    Example2Done =>
        LET trace == Returned.steps IN
        /\ \A k \in 0..1 :
              \E i \in StepsOfType(trace, "INCLUDE") :
                  /\ trace[i].utxoIndex = k
                  /\ \E j \in DeadEnds(trace) :
                        j > i /\ IsPrefix(trace[i].path, trace[j].path)
        /\ Returned.outcome = "failure"
        /\ Returned.bestSolutionPath = None

\* C21 amended: the two values together (20) cannot reach 25, so the root is
\* cut by PRUNE_SUM at once: the trace is PRUNE_SUM at the empty path, then
\* COMPLETE, with no INCLUDE step; outcome 'failure', no best path, no
\* candidate.
C21_PrunedAtRoot ==
    Example2Done =>
        LET trace == Returned.steps IN
        /\ Len(trace) = 2
        /\ trace[1].type = "PRUNE_SUM"
        /\ trace[1].path = << >>
        /\ trace[1].currentSum = 0
        /\ trace[2].type = "COMPLETE"
        /\ StepsOfType(trace, "INCLUDE") = {}
        /\ Returned.outcome = "failure"
        /\ Returned.bestSolutionPath = None
        /\ Returned.bestSolutionIndices = None
        /\ Returned.candidates = << >>

\* C21 witness: the search on the example has returned with a PRUNE_SUM step.
C21_Witness ==
    Example2Done /\ StepsOfType(Returned.steps, "PRUNE_SUM") # {}

\* The search on values = [100], target = 100, tolerance 0 has returned.
Example1Done ==
    /\ phase = "done"
    /\ origValues = << 100 >>
    /\ target = 100
    /\ dustThreshold = 0

\* C22: on values = [100], target = 100 the trace has exactly one SOLUTION
\* step, at path [true]; the outcome is 'success'; and the exclude branch is
\* recorded after the SOLUTION step and before COMPLETE.
C22_OneSolutionThenExclude ==
    Example1Done =>
        LET trace == Returned.steps
            sols == StepsOfType(trace, "SOLUTION")
        IN  /\ Cardinality(sols) = 1
            /\ \A i \in sols :
                  /\ trace[i].path = << TRUE >>
                  /\ \E j \in StepsOfType(trace, "EXCLUDE") :
                        /\ i < j /\ j < Len(trace)
                        /\ trace[j].path = << FALSE >>
            /\ Returned.outcome = "success"
            /\ Returned.bestSolutionPath = Some(<< TRUE >>)
            /\ trace[Len(trace)].type = "COMPLETE"
            /\ StepsOfType(trace, "COMPLETE") = { Len(trace) }

\* C22 witness: the search on the example has returned with five steps.
C22_Witness ==
    Example1Done /\ Len(Returned.steps) = 5

\* The rule that classifies a node of sum `sum` whose next value index is
\* nextIndex, by the priority order SOLUTION, BACKTRACK, PRUNE_SUM, PRUNE_VAL,
\* and otherwise branching.
RuleOf(sum, nextIndex) ==
    IF target <= sum /\ sum <= target + dustThreshold THEN "SOLUTION"
    ELSE IF nextIndex >= Len(utxos) THEN "BACKTRACK"
    ELSE IF sum + SumAbove(utxos, nextIndex - 1) < target THEN "PRUNE_SUM"
    ELSE IF sum > target + dustThreshold THEN "PRUNE_VAL"
    ELSE "BRANCH"

TerminalTypes == { "SOLUTION", "BACKTRACK", "PRUNE_SUM", "PRUNE_VAL" }

\* The steps that classify the node at path p: its terminal step, or the
\* INCLUDE step by which it starts to branch.
ClassifiedAt(trace, p) ==
    { i \in 1..Len(trace) :
        \/ trace[i].type \in TerminalTypes /\ trace[i].path = p
        \/ trace[i].type = "INCLUDE" /\ Parent(trace[i].path) = p }

\* The nodes the search has entered and left: the root and the node of every
\* INCLUDE or EXCLUDE step.
EnteredPaths ==
    { << >> } \cup { steps[i].path : i \in BranchSteps }

\* C23: every node is classified by the first rule that applies, in the order
\* SOLUTION, BACKTRACK, PRUNE_SUM, PRUNE_VAL, branch: each terminal step is of
\* the type the order gives for its node (so it satisfies its own condition
\* and none of the earlier ones, and an overshooting node with no value left
\* is BACKTRACK), a node branches only when no rule applies (INCLUDE first,
\* EXCLUDE after it), and once the search has returned every entered node
\* has exactly one classification.
C23_RulePriority ==
    /\ \A i \in 1..Len(steps) :
          LET s == steps[i] IN
          /\ s.type \in TerminalTypes => RuleOf(s.currentSum, Len(s.path)) = s.type
          /\ s.type = "INCLUDE" =>
                RuleOf(s.currentSum - utxos[Len(s.path)], Len(s.path) - 1) = "BRANCH"
          /\ s.type = "EXCLUDE" =>
                /\ RuleOf(s.currentSum, Len(s.path) - 1) = "BRANCH"
                /\ \E j \in 1..(i - 1) :
                      /\ steps[j].type = "INCLUDE"
                      /\ Parent(steps[j].path) = Parent(s.path)
    /\ phase = "done" =>
          \A p \in EnteredPaths : Cardinality(ClassifiedAt(steps, p)) = 1

\* C23 witness: a returned trace with a PRUNE_VAL step and with a BACKTRACK
\* step at depth n whose sum overshoots target + tolerance.
C23_Witness ==
    /\ phase = "done"
    /\ StepsOfType(steps, "PRUNE_VAL") # {}
    /\ \E i \in StepsOfType(steps, "BACKTRACK") :
          /\ steps[i].currentSum > target + dustThreshold
          /\ Len(steps[i].path) = Len(utxos)

\* C24 as stated: for every step of the trace, whatever its type, the length
\* of its path equals its depth attribute.
C24_PathLengthIsDepth ==
    \A i \in 1..Len(steps) : Len(steps[i].path) = steps[i].depth

\* C25 as stated: every step's remainingValue is the sum of the sorted values
\* at the indices from the length of its path upwards, and on a PRUNE_SUM step
\* it is the remaining sum the prune test used (the one its description
\* quotes).
C25_RemainingFromPathLength ==
    \A i \in 1..Len(steps) :
        /\ steps[i].remainingValue = SumAbove(utxos, Len(steps[i].path) - 1)
        /\ steps[i].type = "PRUNE_SUM" =>
              steps[i].remainingValue = steps[i].description.args[2]

\* The k-th step (0-based) of trace has stepId k.
IdsGapFree(trace) == \A k \in 1..Len(trace) : trace[k].stepId = k - 1

\* C26: step ids start at 0 and go up by one, in the trace being recorded and
\* in every returned trace, that of an earlier invocation and that of a later
\* one alike.
C26_StepIdsGapFree ==
    /\ IdsGapFree(steps)
    /\ stepCounter = Len(steps)
    /\ scenario # None => IdsGapFree(Returned.steps)
    /\ prev # None => IdsGapFree(prev[1].steps)

\* C26 witness: a second invocation has returned, with a trace of three steps
\* or more.
C26_Witness ==
    /\ phase = "done"
    /\ prev # None
    /\ Len(Returned.steps) >= 3
    /\ Len(prev[1].steps) >= 3

\* C27: every step's currentSelection is the increasing list, without
\* duplicates, of the value indices at which its path is true.
C27_SelectionMatchesPath ==
    \A i \in 1..Len(steps) :
        LET sel == steps[i].currentSelection IN
        /\ sel = IndicesOf(steps[i].path)
        /\ \A a, b \in 1..Len(sel) : a < b => sel[a] < sel[b]
        /\ { sel[a] : a \in 1..Len(sel) } =
              { k - 1 : k \in { m \in 1..Len(steps[i].path) : steps[i].path[m] } }

\* C27 witness: a step that selects two values which are not neighbours.
C27_Witness ==
    \E i \in 1..Len(steps) : steps[i].currentSelection = << 0, 2 >>

\* p is a prefix of q and shorter.
StrictPrefix(p, q) == Len(p) < Len(q) /\ IsPrefix(p, q)

\* C28: once a SOLUTION, PRUNE_SUM, PRUNE_VAL or BACKTRACK step is recorded at
\* path P, no step has a path that strictly extends P, no later step other
\* than COMPLETE has path P, and no candidate's path is a proper prefix of
\* another's.
C28_TerminalsAreLeaves ==
    /\ \A i \in 1..Len(steps) :
          steps[i].type \in TerminalTypes =>
              /\ \A j \in 1..Len(steps) : ~StrictPrefix(steps[i].path, steps[j].path)
              /\ \A j \in (i + 1)..Len(steps) :
                    steps[j].type # "COMPLETE" => steps[j].path # steps[i].path
    /\ \A a, b \in 1..Len(candidates) :
          ~StrictPrefix(candidates[a].path, candidates[b].path)

\* C28 witness: a returned trace with two candidates and a pruned node, and a
\* terminal step above the last level.
C28_Witness ==
    /\ phase = "done"
    /\ Len(candidates) >= 2
    /\ StepsOfType(steps, "PRUNE_SUM") # {}
    /\ \E i \in StepsOfType(steps, "SOLUTION") : Len(steps[i].path) < Len(utxos)

\* C29: while the search runs, a step either leaves the trace as it is or
\* adds exactly one step at its end, every earlier step staying as it was;
\* and the trace returned is the trace so built.
C29_AppendOnly ==
    [][ /\ phase = "running" =>
              \/ steps' = steps
              \/ /\ Len(steps') = Len(steps) + 1
                 /\ SubSeq(steps', 1, Len(steps)) = steps
        /\ (phase = "running" /\ phase' = "done") => scenario'[1].steps = steps'
      ]_vars

\* C29 witness: the search is running with four steps recorded.
C29_Witness ==
    phase = "running" /\ Len(steps) >= 4

\* The status the step at the cursor gives its node.
CursorStatus(step) ==
    IF step.type \in { "PRUNE_SUM", "PRUNE_VAL" } THEN "pruned"
    ELSE IF step.type = "SOLUTION" THEN "solution"
    ELSE "active"

\* C30: at every cursor inside the trace at most one node is 'active'; the
\* node of the step at the cursor is there and is 'pruned', 'solution' or
\* 'active' by the kind of that step, whatever it was before; no other node is
\* 'active'; every other node but the root is 'visited', 'pruned' or
\* 'solution', so only the root can be 'pending'.
C30_ActiveOnlyAtCursor ==
    Rendered =>
        LET nodes == Tree.nodes
            cur == Returned.steps[Tree.currentStepIndex + 1]
        IN  /\ Cardinality({ k \in 1..Len(nodes) : nodes[k].status = "active" }) <= 1
            /\ StatusIn(nodes, cur.path) = Some(CursorStatus(cur))
            /\ \A k \in 1..Len(nodes) :
                  nodes[k].path # cur.path =>
                      /\ nodes[k].status # "active"
                      /\ nodes[k].path # << >> =>
                            nodes[k].status \in { "visited", "pruned", "solution" }
                      /\ nodes[k].path = << >> =>
                            nodes[k].status
                                \in { "pending", "visited", "pruned", "solution" }

\* C30 witness: a render whose cursor is on a branching step of a node other
\* than the root, after a node was pruned, with the root still 'pending'.
C30_Witness ==
    /\ Rendered
    /\ Returned.steps[Tree.currentStepIndex + 1].type = "EXCLUDE"
    /\ StatusIn(Tree.nodes, << >>) = Some("pending")
    /\ \E k \in 1..Len(Tree.nodes) : Tree.nodes[k].status = "pruned"
    /\ \E k \in 1..Len(Tree.nodes) : Tree.nodes[k].status = "visited"
    /\ \E k \in 1..Len(Tree.nodes) : Tree.nodes[k].status = "active"

Reverse(seq) == [ k \in 1..Len(seq) |-> seq[Len(seq) + 1 - k] ]

\* A step of another kind at the mirrored path.
Altered(step) ==
    [ step EXCEPT !.type = IF step.type = "SOLUTION" THEN "PRUNE_VAL" ELSE "SOLUTION",
                  !.path = [ k \in 1..Len(step.path) |-> ~step.path[k] ] ]

\* Traces that agree with trace on steps[0..i] (0-based) and go on otherwise:
\* not at all, with the following steps in reverse order, with the following
\* steps altered, and with the first following step left out.
SamePrefixTraces(trace, i) ==
    LET prefix == SubSeq(trace, 1, i + 1)
        rest == SubSeq(trace, i + 2, Len(trace))
    IN  { prefix,
          prefix \o Reverse(rest),
          prefix \o [ k \in 1..Len(rest) |-> Altered(rest[k]) ],
          prefix \o SubSeq(rest, 2, Len(rest)) }

\* The render at the cursor of the latest render, over another trace.
ReplayOf(trace) == BuildTree(trace, Returned.utxos, Tree.currentStepIndex)

\* C31: the nodes (with their statuses) and the edges at cursor i are the same
\* for every trace that agrees with the trace on steps[0..i], whatever steps
\* follow; and a render leaves the trace, the candidate list and the best
\* path as they were.
C31_ReplayIsPrefixProjection ==
    /\ [](Rendered =>
            \A other \in SamePrefixTraces(Returned.steps, Tree.currentStepIndex) :
                ReplayOf(other) =
                    [ threw |-> FALSE, nodes |-> Tree.nodes, edges |-> Tree.edges ])
    /\ [][ tree' # tree =>
             /\ scenario' = scenario
             /\ steps' = steps
             /\ candidates' = candidates
             /\ bestSolutionPath' = bestSolutionPath ]_vars

\* C31 witness: a render at a cursor that at least two steps follow, steps
\* that bring nodes the render does not have.
C31_Witness ==
    /\ Rendered
    /\ Tree.currentStepIndex + 2 < Len(Returned.steps)
    /\ Len(Tree.nodes) >= 2
    /\ Len(Tree.nodes) <
          Len(BuildTree(Returned.steps, Returned.utxos, Len(Returned.steps) - 1).nodes)

\* The Visualizer is playing or lies at the last step.
PlayingOrAtEnd == mounted /\ (isPlaying \/ stepIndex = LastIndex)

\* C32: in the Visualizer the cursor stays within 0..|trace| - 1 whatever the
\* user and the timer do; a tick before the last step moves the cursor on by
\* exactly one and keeps playing, and a tick at the last step stops playback
\* and leaves the cursor; and a playback left alone (from some moment on it
\* is playing or at the last step, and the cursor and the playing flag change
\* by ticks only) comes to rest at the last step, not playing.
C32_StepperCursor ==
    /\ [](mounted => (0 <= stepIndex /\ stepIndex <= LastIndex))
    /\ [][ Tick =>
             IF stepIndex < LastIndex
             THEN stepIndex' = stepIndex + 1 /\ isPlaying'
             ELSE stepIndex' = stepIndex /\ ~isPlaying' ]_vars
    /\ ((<>[]PlayingOrAtEnd /\ <>[][TickCursor]_cursorVars)
           => <>[](mounted /\ stepIndex = LastIndex /\ ~isPlaying))

\* C32 witness: playback has reached the last step of a trace of four steps or
\* more and is still playing: the next tick is the one that stops it.
C32_Witness ==
    /\ mounted
    /\ isPlaying
    /\ stepIndex = LastIndex
    /\ LastIndex >= 3

====
